---- MODULE Spec2Model ----
(***************************************************************************)
(* src-tree: a generator of layered C header/source skeletons.             *)
(*                                                                         *)
(* Two generator programs are modelled: src/main.go (prog = "new", the     *)
(* prefix-aware pipeline) and src/unnamed/part_000 (prog = "old", the      *)
(* fixed pipeline with the *_includes.h collectors).                       *)
(*                                                                         *)
(* Go strings are strings; their bytes are taken one at a time (ord, chr)   *)
(* where the code works on bytes, so that defName's byte arithmetic and     *)
(* strings.ToLower are computed as the code computes them.  A file's        *)
(* content is the string of the bytes written to it.                        *)
(***************************************************************************)
EXTENDS Integers, Sequences, FiniteSets, TLC

\* ------------------------------------------------------------ constants

byteUp == 32                                       \* 'a' - 'A'

pPub == "pub"
pPriv == "priv"
sConsts == "_consts.h"
sTypes == "_types.h"
sInlines == "_inlines.h"
extH == ".h"
extC == ".c"

pubConsts == "pub_consts.h"
pubTypes == "pub_types.h"
pubInlines == "pub_inlines.h"
pubIncludes == "pub_includes.h"
privConsts == "priv_consts.h"
privTypes == "priv_types.h"
privInlines == "priv_inlines.h"
privIncludes == "priv_includes.h"

\* The literal parts of the Fprintf formats.
fmtPragma == "#pragma once\n\n"
fmtIfndef == "#ifndef "
fmtDefine == "\n#define "
fmtNlNl == "\n\n"
fmtEndif == "#endif //"
fmtNl == "\n"
fmtInclude == "#include \""
fmtQuoteNl == "\"\n"

\* Error values.  Nil is Go's nil error.
Nil    == "nil"
EEXIST == "file exists"
EIO    == "input/output error"
EWD    == "getwd failed"

\* ------------------------------------------------------------ the inputs

\* Module names tried for -name and for the working directory's base name.
nFoo == "foo"
nBar == "Bar"
nPubConsts == "pub_consts"
nPrivConsts == "priv_consts"
nUnder == "_x"
nDigit == "9p"
ModuleNames == {nFoo, nBar, nPubConsts, nPrivConsts, nUnder, nDigit}

\* Values tried for -add (the empty one is the flag given with no text).
aXxx == "xxx"
aXy == "Xy"
Prefixes == {"", aXxx, aXy, pPub}

\* The working directory (its base name is what -dir takes as the name).
WorkDirs == {"/w/Mod"}

\* What a file that is on disk before the first run holds.
foreign == "old\n"

\* How many times the program is run in the same directory.
MaxRuns == 2
\* The writes of one file that an I/O fault can hit: the k-th, k in 1..MaxWrites.
MaxWrites == 5

\* ------------------------------------------------------------ the state

VARIABLES
  prog,       \* which program runs: "new" (src/main.go) or "old" (src/unnamed/part_000)
  args,       \* the command line: [nameSet, name, dirSet, once, pub, addSet, add]
  wd,         \* the working directory
  wdOk,       \* whether os.Getwd succeeds
  disk,       \* the file system: absolute path -> content
  name,       \* var name
  once,       \* var once
  pub,        \* var pub
  pfx,        \* var pfx
  isNameSet,  \* var isNameSet
  isDirSet,   \* var isDirSet
  isPfxSet,   \* var isPfxSet
  pc,         \* where main is
  step,       \* old program: which of the eight tier calls is next
  first,      \* createIncs' parameter
  exitCode,   \* the process's exit status, once pc = "exit"
  stderr,     \* the error values logErr printed
  run,        \* which run this is
  log,        \* the files this run created and kept: [iname, inc, kind, fn]
  last,       \* the last createNamedInc/createNamedSrc call: its target, whether the
              \* target existed and what it held, whether createFile made the file,
              \* the write that failed (0: none), the error returned
  start,      \* the file system as this run found it
  guard       \* the token defName returned (specification SpecGuard)

vars == <<prog, args, wd, wdOk, disk, name, once, pub, pfx, isNameSet, isDirSet,
          isPfxSet, pc, step, first, exitCode, stderr, run, log, last, start, guard>>

\* ------------------------------------------------------------ strings

\* The codes of the bytes that names are made of here: the letters,
letterOrd ==
  [ A |-> 65, B |-> 66, C |-> 67, D |-> 68, E |-> 69, F |-> 70, G |-> 71, H |-> 72, I |-> 73,
   J |-> 74, K |-> 75, L |-> 76, M |-> 77, N |-> 78, O |-> 79, P |-> 80, Q |-> 81, R |-> 82,
   S |-> 83, T |-> 84, U |-> 85, V |-> 86, W |-> 87, X |-> 88, Y |-> 89, Z |-> 90, a |-> 97,
   b |-> 98, c |-> 99, d |-> 100, e |-> 101, f |-> 102, g |-> 103, h |-> 104, i |-> 105, j |-> 106,
   k |-> 107, l |-> 108, m |-> 109, n |-> 110, o |-> 111, p |-> 112, q |-> 113, r |-> 114, s |-> 115,
   t |-> 116, u |-> 117, v |-> 118, w |-> 119, x |-> 120, y |-> 121, z |-> 122 ]

\* and the digits, '-', '.', '/' and '_'.
otherOrd(c) ==
  CASE c = "0" -> 48 [] c = "1" -> 49 [] c = "2" -> 50 [] c = "3" -> 51 [] c = "4" -> 52 []
       c = "5" -> 53 [] c = "6" -> 54 [] c = "7" -> 55 [] c = "8" -> 56 [] c = "9" -> 57 []
       c = "-" -> 45 [] c = "." -> 46 [] c = "/" -> 47 [] c = "_" -> 95

\* The code of the one-byte string c.
ord(c) == IF c \in DOMAIN letterOrd THEN letterOrd[c] ELSE otherOrd(c)

digits  == "0123456789"
capitals == "ABCDEFGHIJKLMNOPQRSTUVWXYZ"
smalls  == "abcdefghijklmnopqrstuvwxyz"

\* The one-byte string with code n.
chr(n) ==
  IF n >= 48 /\ n <= 57 THEN SubSeq(digits, n - 47, n - 47)
  ELSE IF n >= 65 /\ n <= 90 THEN SubSeq(capitals, n - 64, n - 64)
  ELSE IF n >= 97 /\ n <= 122 THEN SubSeq(smalls, n - 96, n - 96)
  ELSE CASE n = 45 -> "-" [] n = 46 -> "." [] n = 47 -> "/" [] n = 95 -> "_"

\* s[i], a byte's code.
byteAt(s, i) == ord(SubSeq(s, i, i))

\* One byte of strings.ToLower: a capital becomes the small letter.
lowerByte(b) == IF b >= 65 /\ b <= 90 THEN b + byteUp ELSE b

RECURSIVE lowerFrom(_, _)
lowerFrom(s, i) ==
  IF i > Len(s) THEN "" ELSE chr(lowerByte(byteAt(s, i))) \o lowerFrom(s, i + 1)

\* strings.ToLower on ASCII bytes.
ToLower(s) == lowerFrom(s, 1)

\* filepath.Abs of a relative name: the working directory joined with it.
Abs(p) == wd \o "/" \o p

RECURSIVE LastSlash(_, _)
LastSlash(s, i) == IF i = 0 THEN 0 ELSE IF SubSeq(s, i, i) = "/" THEN i ELSE LastSlash(s, i - 1)

\* filepath.Base of a clean absolute path: what follows the last separator.
Base(p) == SubSeq(p, LastSlash(p, Len(p)) + 1, Len(p))

\* ------------------------------------------------------------ naming

\* includeName: the include path, qualified by the module name when there is one.
includeName(iname) == IF Len(name) = 0 THEN iname ELSE name \o "/" \o iname

\* A faulty defByte: small letters are kept as they are.
defByteKeepsSmall(b) ==
  IF b >= 48 /\ b <= 57 THEN b
  ELSE IF b >= 65 /\ b <= 90 THEN b
  ELSE IF b >= 97 /\ b <= 122 THEN b
  ELSE 95

\* One byte of defName's loop in src/main.go: digits and capitals are kept,
\* small letters are raised, every other byte becomes '_'.
defByte(b) ==
  IF b >= 48 /\ b <= 57 THEN b
  ELSE IF b >= 65 /\ b <= 90 THEN b
  ELSE IF b >= 97 /\ b <= 122 THEN b - byteUp
  ELSE 95

RECURSIVE defLoop(_, _, _)
\* for _, b := range []byte(n) { ... r = append(r, ...) }, from byte i on.
defLoop(n, i, r) ==
  IF i > Len(n) THEN r ELSE defLoop(n, i + 1, r \o chr(defByte(byteAt(n, i))))

\* defName of src/main.go.
defName(iname) == defLoop(includeName(iname), 1, "__") \o "__"

\* One byte of defName's loop in src/unnamed/part_000: there is no case for digits.
defByteOld(b) ==
  IF b >= 65 /\ b <= 90 THEN b
  ELSE IF b >= 97 /\ b <= 122 THEN b - byteUp
  ELSE 95

RECURSIVE defLoopOld(_, _, _)
defLoopOld(n, i, r) ==
  IF i > Len(n) THEN r ELSE defLoopOld(n, i + 1, r \o chr(defByteOld(byteAt(n, i))))

\* defName of src/unnamed/part_000.
defNameOld(iname) == defLoopOld(includeName(iname), 1, "__") \o "__"

\* ------------------------------------------------------------ the file system

\* fileCreate of src/main.go: O_WRONLY | O_CREATE | O_EXCL | O_TRUNC.
fileCreate == [create |-> TRUE, excl |-> TRUE, trunc |-> TRUE]

\* fileCreate of src/unnamed/part_000: O_RDWR | O_CREATE | O_TRUNC.
fileCreateOld == [create |-> TRUE, excl |-> FALSE, trunc |-> TRUE]

\* The I/O faults one createNamedInc/createNamedSrc call can meet: none, the open
\* fails, or the k-th write fails.
Faults == {[open |-> FALSE, write |-> k] : k \in 0..MaxWrites} \cup {[open |-> TRUE, write |-> 0]}
NoFault == [open |-> FALSE, write |-> 0]

\* os.OpenFile(fn, flag, fileMode) on file system d.
OpenFile(d, fn, flag, fails) ==
  IF fails THEN [err |-> EIO, disk |-> d]
  ELSE IF fn \in DOMAIN d
       THEN IF flag.excl THEN [err |-> EEXIST, disk |-> d]
            ELSE [err |-> Nil, disk |-> IF flag.trunc THEN [d EXCEPT ![fn] = ""] ELSE d]
       ELSE [err |-> Nil, disk |-> d @@ (fn :> "")]

\* os.Remove(fn).
Remove(d, fn) == [k \in DOMAIN d \ {fn} |-> d[k]]

\* What createFile returns for what os.OpenFile(fn, ...) returned, o.
opened(d, fn, o) ==
  IF o.err # Nil THEN [err |-> o.err, fn |-> "", disk |-> d]
  ELSE [err |-> Nil, fn |-> fn, disk |-> o.disk]

\* createFile of src/main.go: (w, fn, err) and the file system it leaves.
\* filepath.Abs fails when the working directory cannot be read.
createFile(d, fname, fails) ==
  IF ~wdOk THEN [err |-> EWD, fn |-> "", disk |-> d]
  ELSE opened(d, Abs(ToLower(fname)), OpenFile(d, Abs(ToLower(fname)), fileCreate, fails))

\* createFile of src/unnamed/part_000.
createFileOld(d, fname, fails) ==
  IF ~wdOk THEN [err |-> EWD, fn |-> "", disk |-> d]
  ELSE opened(d, Abs(ToLower(fname)), OpenFile(d, Abs(ToLower(fname)), fileCreateOld, fails))

\* ------------------------------------------------------------ the writers

\* A writer state s is [disk, n, err, fn, failAt]: the file system, the number of
\* Write calls made on the open file fn, the error of the last one, and the
\* call that the fault hits (0: none).

\* One Write call on the open file (what fmt.Fprintf ends in): the bytes are
\* appended, or the call fails and appends nothing.
Fprintf(s, bytes) ==
  IF s.n + 1 = s.failAt
  THEN [s EXCEPT !.n = @ + 1, !.err = EIO]
  ELSE [s EXCEPT !.n = @ + 1, !.err = Nil, !.disk = [s.disk EXCEPT ![s.fn] = @ \o bytes]]

\* writeHeader: the pragma when once is set, then the guard's opening.
writeHeader(s, iname) ==
  LET s1  == IF once THEN Fprintf(s, fmtPragma) ELSE s
      def == IF prog = "old" THEN defNameOld(iname) ELSE defName(iname)
  IN IF once /\ s1.err # Nil THEN s1
     ELSE Fprintf(s1, fmtIfndef \o def \o fmtDefine \o def \o fmtNlNl)

\* writeFooter.
writeFooter(s, iname) ==
  LET def == IF prog = "old" THEN defNameOld(iname) ELSE defName(iname)
  IN Fprintf(s, fmtEndif \o def \o fmtNl)

\* A faulty writeInclude: the name is written without the module's qualification.
writeIncludeBare(s, iname) == Fprintf(s, fmtInclude \o iname \o fmtQuoteNl)

\* writeInclude.
writeInclude(s, iname) == Fprintf(s, fmtInclude \o includeName(iname) \o fmtQuoteNl)

\* for _, incName := range inc { if err = writeInclude(w, incName); err != nil { return } }
RECURSIVE writeIncludes(_, _)
writeIncludes(s, inc) ==
  IF Len(inc) = 0 THEN s
  ELSE LET s1 == writeInclude(s, Head(inc))
       IN IF s1.err # Nil THEN s1 ELSE writeIncludes(s1, Tail(inc))

\* A faulty deferred function: the file is closed and never removed.
cleanupKeeps(s) == [err |-> s.err, fn |-> s.fn, disk |-> s.disk]

\* The deferred function of createNamedInc and createNamedSrc: w.Close(), and
\* os.Remove(fn) when the call returns an error.
cleanup(s) == [err |-> s.err, fn |-> s.fn, disk |-> IF s.err # Nil THEN Remove(s.disk, s.fn) ELSE s.disk]

\* createNamedInc on file system d under fault f: its error and the file system
\* it leaves.  Each step after the first is skipped once err is set (the code
\* returns), and the deferred function runs on every path past createFile.
createNamedInc(d, iname, inc, f) ==
  LET includes(s) == IF s.err # Nil THEN s ELSE writeIncludes(s, inc)
      blank(s)    == IF s.err # Nil THEN s
                     ELSE IF Len(inc) > 0 THEN Fprintf(s, "\n") ELSE s
      footer(s)   == IF s.err # Nil THEN s ELSE writeFooter(s, iname)
      \* what follows `w, fn, err = createFile(iname)`, c
      body(c) ==
        IF c.err # Nil THEN [err |-> c.err, fn |-> c.fn, disk |-> d]
        ELSE cleanup(footer(blank(includes(writeHeader(
               [disk |-> c.disk, n |-> 0, err |-> Nil, fn |-> c.fn, failAt |-> f.write],
               iname)))))
  IN body(IF prog = "old" THEN createFileOld(d, iname, f.open) ELSE createFile(d, iname, f.open))

\* createNamedSrc.
createNamedSrc(d, sname, inc, f) ==
  LET body(c) ==
        IF c.err # Nil THEN [err |-> c.err, fn |-> c.fn, disk |-> d]
        ELSE cleanup(writeIncludes(
               [disk |-> c.disk, n |-> 0, err |-> Nil, fn |-> c.fn, failAt |-> f.write], inc))
  IN body(IF prog = "old" THEN createFileOld(d, sname, f.open) ELSE createFile(d, sname, f.open))

\* ------------------------------------------------------------ the process

\* The command lines tried.  The old program knows no -pub and no -add.
ArgSets(p) ==
  {a \in [nameSet : BOOLEAN, name : ModuleNames \cup {""}, dirSet : BOOLEAN,
          once : BOOLEAN, pub : BOOLEAN, addSet : BOOLEAN, add : Prefixes] :
     /\ (~a.nameSet => a.name = "")
     /\ (~a.addSet => a.add = "")
     /\ (p = "old" => ~a.pub /\ ~a.addSet)}

\* The directories a first run may find: empty, or holding one file of another
\* origin where the run will want to create one of its own.
PreExisting == {pubConsts, pubTypes, privConsts, nFoo \o extH, nFoo \o extC, aXxx \o extC}
InitDisks(w) == {<<>>} \cup {(w \o "/" \o f) :> foreign : f \in PreExisting}

NoCall == [fn |-> "", existed |-> FALSE, old |-> "", created |-> FALSE,
           failedWrite |-> 0, err |-> Nil, kind |-> "none"]

Init ==
  /\ prog \in {"new", "old"}
  /\ args \in ArgSets(prog)
  /\ wd \in WorkDirs
  /\ wdOk \in BOOLEAN
  /\ disk \in InitDisks(wd)
  /\ start = disk
  /\ name = "" /\ pfx = ""
  /\ once = FALSE /\ pub = FALSE
  /\ isNameSet = FALSE /\ isDirSet = FALSE /\ isPfxSet = FALSE
  /\ pc = "checkFlags"
  /\ step = 1
  /\ first = TRUE
  /\ exitCode = 0
  /\ stderr = <<>>
  /\ run = 1
  /\ log = <<>>
  /\ last = NoCall
  /\ guard = ""

\* os.Exit(code).
Exit(code) == pc' = "exit" /\ exitCode' = code

\* A faulty logErr: the error is printed and the exit status is 0.
logErrExitsZero(err) == stderr' = Append(stderr, err) /\ Exit(0)

\* logErr: the error goes to the error stream and the process exits with 1.
logErr(err) == stderr' = Append(stderr, err) /\ Exit(1)

\* main returns: the process exits with 0.
Return == Exit(0)

\* fName.
fName(suf) == pfx \o suf

\* One call site of main or createIncs, `if err := create...(iname, inc...); err != nil
\* { logErr(err) }` (in createIncs the error is returned to main, which does the
\* same): the call under some fault, then logErr, or what follows the call, Ok.
CallSite(kind, iname, inc, Ok) ==
  \E f \in Faults :
    \E r \in {IF kind = "inc" THEN createNamedInc(disk, iname, inc, f)
              ELSE createNamedSrc(disk, iname, inc, f)} :
      \E fn \in {Abs(ToLower(iname))} :
        /\ disk' = r.disk
        /\ last' = [fn |-> fn, existed |-> fn \in DOMAIN disk,
                    old |-> IF fn \in DOMAIN disk THEN disk[fn] ELSE "",
                    created |-> r.fn # "",
                    failedWrite |-> IF r.fn # "" /\ r.err # Nil THEN f.write ELSE 0,
                    err |-> r.err, kind |-> kind]
        /\ IF r.err # Nil
           THEN /\ logErr(r.err)
                /\ UNCHANGED <<log, pfx, first, step>>
           ELSE /\ log' = Append(log, [iname |-> iname, inc |-> inc, kind |-> kind, fn |-> r.fn])
                /\ stderr' = stderr
                /\ Ok
        /\ UNCHANGED <<prog, args, wd, wdOk, name, once, pub, isNameSet, isDirSet,
                       isPfxSet, run, start, guard>>

\* ---- src/main.go

\* checkFlags: flag.Parse, flag.Visit and the checks.
checkFlags ==
  /\ prog = "new" /\ pc = "checkFlags"
  /\ isNameSet' = args.nameSet /\ isDirSet' = args.dirSet /\ isPfxSet' = args.addSet
  /\ once' = args.once /\ pub' = args.pub
  /\ IF args.nameSet /\ args.dirSet
     THEN /\ stderr' = Append(stderr, "flags not compatible")
          /\ Exit(1)
          /\ name' = args.name /\ pfx' = args.add
     ELSE IF args.addSet /\ Len(args.add) = 0
     THEN /\ stderr' = Append(stderr, "flag must have non empty arg")
          /\ Exit(1)
          /\ name' = args.name /\ pfx' = args.add
     ELSE /\ pfx' = IF args.addSet THEN args.add ELSE pPub
          /\ IF ~args.dirSet
             THEN name' = args.name /\ pc' = "consts" /\ UNCHANGED <<stderr, exitCode>>
             ELSE IF ~wdOk
             THEN name' = args.name /\ logErr(EWD)
             ELSE name' = Base(wd) /\ pc' = "consts" /\ UNCHANGED <<stderr, exitCode>>
  /\ UNCHANGED <<prog, args, wd, wdOk, disk, step, first, run, log, last, start, guard>>

\* A faulty afterExport: `pfx = pPriv` is missing.
afterExportKeepsPfx ==
  IF pub THEN Return /\ UNCHANGED <<pfx, first, step>>
  ELSE pfx' = pfx /\ first' = FALSE /\ pc' = "consts" /\ UNCHANGED <<exitCode, step>>

\* A faulty afterExport: -pub is not looked at.
afterExportIgnoresPub ==
  pfx' = pPriv /\ first' = FALSE /\ pc' = "consts" /\ UNCHANGED <<exitCode, step>>

\* main after the export header (or without one): `if pub { return }`, then
\* `pfx = pPriv` and createIncs(false).
afterExport ==
  IF pub THEN Return /\ UNCHANGED <<pfx, first, step>>
  ELSE pfx' = pPriv /\ first' = FALSE /\ pc' = "consts" /\ UNCHANGED <<exitCode, step>>

\* A faulty afterFirstIncs: the export include of the module is left out.
afterFirstIncsNoExport ==
  IF isPfxSet THEN pc' = "pfxH" /\ UNCHANGED <<pfx, first, step, exitCode>>
  ELSE afterExport

\* main after createIncs(true) returned nil.
afterFirstIncs ==
  IF isPfxSet THEN pc' = "pfxH" /\ UNCHANGED <<pfx, first, step, exitCode>>
  ELSE IF Len(name) > 0 THEN pc' = "nameH" /\ UNCHANGED <<pfx, first, step, exitCode>>
  ELSE afterExport

\* main after createIncs(false) returned nil.
afterSecondIncs ==
  IF Len(name) > 0 THEN pc' = "nameC" /\ UNCHANGED <<pfx, first, step, exitCode>>
  ELSE Return /\ UNCHANGED <<pfx, first, step>>

\* createIncs: the consts file, with the public inlines as its include in the second tier.
createIncsConsts ==
  /\ prog = "new" /\ pc = "consts"
  /\ CallSite("inc", fName(sConsts), IF first THEN <<>> ELSE <<pPub \o sInlines>>,
              pc' = "types" /\ UNCHANGED <<pfx, first, step, exitCode>>)

\* createIncs: the types file.
createIncsTypes ==
  /\ prog = "new" /\ pc = "types"
  /\ CallSite("inc", fName(sTypes), <<fName(sConsts)>>,
              pc' = "inlines" /\ UNCHANGED <<pfx, first, step, exitCode>>)

\* A faulty createIncsInlines: the inlines file includes the consts file.
createIncsInlinesSkipsTypes ==
  /\ prog = "new" /\ pc = "inlines"
  /\ CallSite("inc", fName(sInlines), <<fName(sConsts)>>,
              IF first THEN afterFirstIncs ELSE afterSecondIncs)

\* createIncs: the inlines file, and main's step after createIncs.
createIncsInlines ==
  /\ prog = "new" /\ pc = "inlines"
  /\ CallSite("inc", fName(sInlines), <<fName(sTypes)>>,
              IF first THEN afterFirstIncs ELSE afterSecondIncs)

\* main, custom prefix: the export include.
mainPfxInc ==
  /\ prog = "new" /\ pc = "pfxH"
  /\ CallSite("inc", pfx \o extH, <<fName(sInlines)>>,
              pc' = "pfxC" /\ UNCHANGED <<pfx, first, step, exitCode>>)

\* A faulty mainPfxSrc: the src template includes the inlines file.
mainPfxSrcIncludesInlines ==
  /\ prog = "new" /\ pc = "pfxC"
  /\ CallSite("src", pfx \o extC, <<fName(sInlines)>>, Return /\ UNCHANGED <<pfx, first, step>>)

\* main, custom prefix: the src template, then return.
mainPfxSrc ==
  /\ prog = "new" /\ pc = "pfxC"
  /\ CallSite("src", pfx \o extC, <<pfx \o extH>>, Return /\ UNCHANGED <<pfx, first, step>>)

\* main: the export include of the module.
mainNameInc ==
  /\ prog = "new" /\ pc = "nameH"
  /\ CallSite("inc", name \o extH, <<fName(sInlines)>>, afterExport)

\* main: the src template of the module, then the end of main.
mainNameSrc ==
  /\ prog = "new" /\ pc = "nameC"
  /\ CallSite("src", name \o extC, <<fName(sInlines)>>, Return /\ UNCHANGED <<pfx, first, step>>)

\* ---- src/unnamed/part_000

\* checkFlags of the old program.
checkFlagsOld ==
  /\ prog = "old" /\ pc = "checkFlags"
  /\ isNameSet' = args.nameSet /\ isDirSet' = args.dirSet
  /\ once' = args.once
  /\ IF args.nameSet /\ args.dirSet
     THEN /\ stderr' = Append(stderr, "flags not compatible")
          /\ Exit(1)
          /\ name' = args.name
     ELSE IF ~args.dirSet
     THEN name' = args.name /\ pc' = "tier" /\ UNCHANGED <<stderr, exitCode>>
     ELSE IF ~wdOk
     THEN name' = args.name /\ logErr(EWD)
     ELSE name' = Base(wd) /\ pc' = "tier" /\ UNCHANGED <<stderr, exitCode>>
  /\ UNCHANGED <<prog, args, wd, wdOk, disk, pub, pfx, isPfxSet, step, first, run,
                 log, last, start, guard>>

\* The eight createNamedInc calls main opens with, in order.
tierCalls ==
  << [iname |-> pubConsts,    inc |-> <<>>],
     [iname |-> pubTypes,     inc |-> <<pubConsts>>],
     [iname |-> pubInlines,   inc |-> <<pubTypes>>],
     [iname |-> pubIncludes,  inc |-> <<pubInlines>>],
     [iname |-> privConsts,   inc |-> <<pubIncludes>>],
     [iname |-> privTypes,    inc |-> <<privConsts>>],
     [iname |-> privInlines,  inc |-> <<privTypes>>],
     [iname |-> privIncludes, inc |-> <<privInlines>>] >>

\* main: the next of the eight calls; after the last, `if len(name) == 0 { return }`.
mainOldTier ==
  /\ prog = "old" /\ pc = "tier"
  /\ CallSite("inc", tierCalls[step].iname, tierCalls[step].inc,
              IF step < Len(tierCalls)
              THEN step' = step + 1 /\ UNCHANGED <<pc, pfx, first, exitCode>>
              ELSE IF Len(name) = 0 THEN Return /\ UNCHANGED <<pfx, first, step>>
              ELSE pc' = "oldNameH" /\ UNCHANGED <<pfx, first, step, exitCode>>)

\* main: the export include.
mainOldNameInc ==
  /\ prog = "old" /\ pc = "oldNameH"
  /\ CallSite("inc", name \o extH, <<pubIncludes>>,
              pc' = "oldNameC" /\ UNCHANGED <<pfx, first, step, exitCode>>)

\* main: the src template, then the end of main.
mainOldNameSrc ==
  /\ prog = "old" /\ pc = "oldNameC"
  /\ CallSite("src", name \o extC, <<privIncludes>>, Return /\ UNCHANGED <<pfx, first, step>>)

\* ---- the environment

\* The same command is run again in the same directory: a new process, with
\* its variables at their zero values.
Rerun ==
  /\ pc = "exit" /\ run < MaxRuns
  /\ run' = run + 1
  /\ start' = disk
  /\ name' = "" /\ pfx' = ""
  /\ once' = FALSE /\ pub' = FALSE
  /\ isNameSet' = FALSE /\ isDirSet' = FALSE /\ isPfxSet' = FALSE
  /\ pc' = "checkFlags" /\ step' = 1 /\ first' = TRUE /\ exitCode' = 0
  /\ stderr' = <<>> /\ log' = <<>> /\ last' = NoCall
  /\ UNCHANGED <<prog, args, wd, wdOk, disk, guard>>

Next ==
  \/ checkFlags
  \/ createIncsConsts
  \/ createIncsTypes
  \/ createIncsInlines
  \/ mainPfxInc
  \/ mainPfxSrc
  \/ mainNameInc
  \/ mainNameSrc
  \/ checkFlagsOld
  \/ mainOldTier
  \/ mainOldNameInc
  \/ mainOldNameSrc
  \/ Rerun

Spec == Init /\ [][Next]_vars

\* ------------------------------------------------------------ the guard deriver alone

\* defName as a function of the module name: every name of at most MaxNameLen
\* bytes over NameBytes (a small letter, a capital, a digit, '_', '-', '.').
MaxNameLen == 3
NameBytes == {"a", "Z", "7", "_", "-", "."}
RECURSIVE NamesUpTo(_)
NamesUpTo(n) ==
  IF n = 0 THEN {""} ELSE {""} \cup {c \o s : c \in NameBytes, s \in NamesUpTo(n - 1)}

constsH == "consts.h"

InitGuard ==
  /\ prog \in {"new", "old"}
  /\ name \in NamesUpTo(MaxNameLen)
  /\ args = [nameSet |-> TRUE, name |-> name, dirSet |-> FALSE, once |-> FALSE,
             pub |-> FALSE, addSet |-> FALSE, add |-> ""]
  /\ wd \in WorkDirs
  /\ wdOk = TRUE
  /\ disk = <<>> /\ start = <<>>
  /\ pfx = pPub
  /\ once = FALSE /\ pub = FALSE
  /\ isNameSet = TRUE /\ isDirSet = FALSE /\ isPfxSet = FALSE
  /\ pc = "defName"
  /\ step = 1 /\ first = TRUE /\ exitCode = 0
  /\ stderr = <<>> /\ run = 1 /\ log = <<>> /\ last = NoCall
  /\ guard = ""

\* One call of defName("consts.h") under the module name of the state.
callDefName ==
  /\ pc = "defName"
  /\ guard' = IF prog = "old" THEN defNameOld(constsH) ELSE defName(constsH)
  /\ pc' = "defName returned"
  /\ UNCHANGED <<prog, args, wd, wdOk, disk, name, once, pub, pfx, isNameSet, isDirSet,
                 isPfxSet, step, first, exitCode, stderr, run, log, last, start>>

NextGuard == callDefName

SpecGuard == InitGuard /\ [][NextGuard]_vars


\* ------------------------------------------------------------ the claims

HasPrefix(s, p) == Len(s) >= Len(p) /\ SubSeq(s, 1, Len(p)) = p

\* The names of the files in the working directory.
Files == {Base(k) : k \in DOMAIN disk}

Done == pc = "exit"
FromEmpty == start = <<>>
\* No call of this run met an I/O fault.
NoIOFault == wdOk /\ \A i \in 1..Len(stderr) : stderr[i] \notin {EIO, EWD}

pubUnder == "pub_"
privUnder == "priv_"

\* ---- C1

\* The five names of the custom-prefix chain, in the order of creation.
AddNames(P) == <<P \o sConsts, P \o sTypes, P \o sInlines, P \o extH, P \o extC>>

\* The files the flags ask for, in the order of creation (after checkFlags).
PlanNames ==
  IF prog = "old"
  THEN <<pubConsts, pubTypes, pubInlines, pubIncludes,
         privConsts, privTypes, privInlines, privIncludes>>
       \o (IF name = "" THEN <<>> ELSE <<name \o extH, name \o extC>>)
  ELSE IF args.addSet THEN AddNames(args.add)
  ELSE <<pubConsts, pubTypes, pubInlines>>
       \o (IF name = "" THEN <<>> ELSE <<name \o extH>>)
       \o (IF args.pub THEN <<>>
           ELSE <<privConsts, privTypes, privInlines>>
                \o (IF name = "" THEN <<>> ELSE <<name \o extC>>))

\* The run before this one, with the same flags, has left every planned file.
AfterCompletedRun ==
  /\ run > 1 /\ pc \notin {"checkFlags", "exit"}
  /\ \A i \in 1..Len(PlanNames) : Abs(ToLower(PlanNames[i])) \in DOMAIN start

\* At the return of a call whose lower-cased target was there already: an error,
\* and the file is there with the content it had.
C1_KeptAtCall ==
  (last.kind # "none" /\ last.existed) =>
    /\ last.err # Nil
    /\ last.fn \in DOMAIN disk
    /\ disk[last.fn] = last.old

\* C1, as stated: in either program, a createNamedInc/createNamedSrc call whose
\* lower-cased target already exists returns an error and leaves the file that
\* was there with the content it had; and a run that follows a completed run
\* with the same flags creates and alters nothing, and ends with status 1.
C1_ExistingFileIsKept ==
  /\ []C1_KeptAtCall
  /\ [][AfterCompletedRun => (disk' = disk /\ exitCode' = 1 /\ pc' = "exit")]_vars

\* ---- C2

\* C2: when createFile made the file and a later write of the call fails, no
\* file is left at the target path when the call has returned, whichever write
\* failed, in createNamedInc and in createNamedSrc.
C2_NoFileLeftAfterFailedWrite ==
  (last.kind # "none" /\ last.created /\ last.err # Nil) => last.fn \notin DOMAIN disk

\* C2's case: the footer of an include file with a pragma and one include (its
\* fifth write) failed.
C2_Witness ==
  /\ last.kind = "inc" /\ last.created /\ last.failedWrite = 5 /\ last.err = EIO
  /\ once /\ Len(log) >= 1

\* ---- C3

OnlyNameFoo ==
  /\ prog = "new"
  /\ args = [nameSet |-> TRUE, name |-> nFoo, dirSet |-> FALSE, once |-> FALSE,
             pub |-> FALSE, addSet |-> FALSE, add |-> ""]

\* C3, as stated: -name=foo alone in an empty directory, no I/O fault: the files
\* are foo_consts.h, foo_types.h, foo_inlines.h, foo.h, the three priv_ files
\* and foo.c.
C3_Original ==
  (OnlyNameFoo /\ FromEmpty /\ NoIOFault /\ Done) =>
    Files = {nFoo \o sConsts, nFoo \o sTypes, nFoo \o sInlines, nFoo \o extH,
             privConsts, privTypes, privInlines, nFoo \o extC}

\* C3, amended: the first tier carries the default prefix pub, not the module
\* name: the run exits with 0 and the files are pub_consts.h, pub_types.h,
\* pub_inlines.h, foo.h, priv_consts.h, priv_types.h, priv_inlines.h and foo.c.
C3_FilesOfNameFoo ==
  (OnlyNameFoo /\ FromEmpty /\ NoIOFault /\ Done) =>
    /\ exitCode = 0
    /\ Files = {pubConsts, pubTypes, pubInlines, nFoo \o extH,
                privConsts, privTypes, privInlines, nFoo \o extC}

C3_Witness ==
  OnlyNameFoo /\ FromEmpty /\ NoIOFault /\ Done /\ Cardinality(DOMAIN disk) = 8

\* ---- C4

\* A run with -pub and -name=N and no -add, started in an empty directory.
PubRun == prog = "new" /\ args.pub /\ args.nameSet /\ ~args.addSet /\ FromEmpty

\* C4, as stated: at every point of such a run the files are among the public
\* tier and N.h, and none is a priv_ file or N.c.
C4_Original ==
  PubRun =>
    /\ Files \subseteq {pubConsts, pubTypes, pubInlines, ToLower(args.name \o extH)}
    /\ \A f \in Files : ~HasPrefix(f, privUnder) /\ f # ToLower(args.name \o extC)

\* C4, amended: the files are among the public tier and the lower-cased N.h;
\* N.c is never created, and the only priv_ file there can be is the export
\* header N.h itself (when N begins with priv_).
C4_OnlyPublicTier ==
  PubRun =>
    /\ Files \subseteq {pubConsts, pubTypes, pubInlines, ToLower(args.name \o extH)}
    /\ \A f \in Files :
         /\ f # ToLower(args.name \o extC)
         /\ HasPrefix(f, privUnder) => f = ToLower(args.name \o extH)

C4_Witness ==
  PubRun /\ Done /\ exitCode = 0 /\ args.name = nBar /\ Cardinality(Files) = 4


\* ---- C5

\* A run with -add=P, P not empty, started in an empty directory.
AddRun == prog = "new" /\ args.addSet /\ args.add # "" /\ FromEmpty

LowerAll(names) == {ToLower(names[i]) : i \in 1..Len(names)}
IsPrefixOf(a, b) == Len(a) <= Len(b) /\ a = SubSeq(b, 1, Len(a))
\* The names this run gave to the files it created, in the order of creation.
LogNames == [i \in 1..Len(log) |-> log[i].iname]

\* What a src template holds that includes the one file inc.
SrcOf(inc) == "#include \"" \o (IF name = "" THEN inc ELSE name \o "/" \o inc) \o "\"\n"

\* C5, as stated: at every point of such a run the files are among the five of
\* the chain (on disk in small letters), created in the order given; none is a
\* pub_ file, a priv_ file, <name>.h or <name>.c; and P.c includes P.h.
C5_Original ==
  AddRun =>
    /\ Files \subseteq LowerAll(AddNames(args.add))
    /\ IsPrefixOf(LogNames, AddNames(args.add))
    /\ \A f \in Files :
         /\ ~HasPrefix(f, pubUnder) /\ ~HasPrefix(f, privUnder)
         /\ name # "" => f \notin {ToLower(name \o extH), ToLower(name \o extC)}
    /\ (Done /\ exitCode = 0) =>
         disk[Abs(ToLower(args.add \o extC))] = SrcOf(args.add \o extH)

\* C5, amended: the files are among the five of the chain, created in the
\* order given, whatever -name, -dir and -pub are; a pub_ file, a priv_ file,
\* <name>.h or <name>.c is there only if it is one of the five (P is pub or
\* priv, or P is the module name); and P.c includes P.h.
C5_OnlyPrefixChain ==
  AddRun =>
    /\ Files \subseteq LowerAll(AddNames(args.add))
    /\ IsPrefixOf(LogNames, AddNames(args.add))
    /\ \A f \in Files :
         (\/ HasPrefix(f, pubUnder) \/ HasPrefix(f, privUnder)
          \/ (name # "" /\ f \in {ToLower(name \o extH), ToLower(name \o extC)}))
         => (HasPrefix(f, ToLower(args.add)) /\ f \in LowerAll(AddNames(args.add)))
    /\ (Done /\ exitCode = 0) =>
         /\ Cardinality(Files) = 5
         /\ disk[Abs(ToLower(args.add \o extC))] = SrcOf(args.add \o extH)

C5_Witness ==
  AddRun /\ Done /\ exitCode = 0 /\ args.add = aXy /\ args.pub /\ name = nFoo
    /\ Cardinality(Files) = 5

\* ---- C6 (specification SpecGuard)

Returned == pc = "defName returned"

\* No byte of s is a small letter.
NoSmall(s) == \A i \in 1..Len(s) : ~(byteAt(s, i) >= 97 /\ byteAt(s, i) <= 122)

\* A module name that is a C identifier: a letter or '_', then letters, digits, '_'.
IsLetter(c) == c \in DOMAIN letterOrd
IsDigit(c) == ord(c) >= 48 /\ ord(c) <= 57
IsIdent(s) ==
  /\ Len(s) > 0
  /\ IsLetter(SubSeq(s, 1, 1)) \/ SubSeq(s, 1, 1) = "_"
  /\ \A i \in 1..Len(s) : IsLetter(SubSeq(s, i, i)) \/ IsDigit(SubSeq(s, i, i)) \/ SubSeq(s, i, i) = "_"

\* Exactly two '_' at the start and exactly two at the end.
TwoLeading(g)  == Len(g) >= 3 /\ SubSeq(g, 1, 2) = "__" /\ SubSeq(g, 3, 3) # "_"
TwoTrailing(g) == Len(g) >= 3 /\ SubSeq(g, Len(g) - 1, Len(g)) = "__"
                             /\ SubSeq(g, Len(g) - 2, Len(g) - 2) # "_"

FirstByteKept ==
  \/ name = ""
  \/ IsLetter(SubSeq(name, 1, 1))
  \/ (prog = "new" /\ IsDigit(SubSeq(name, 1, 1)))

RECURSIVE Unlines(_)
\* The lines, each ended by a newline.
Unlines(ls) == IF Len(ls) = 0 THEN "" ELSE Head(ls) \o "\n" \o Unlines(Tail(ls))

\* The guard token of the include file iname, derived from its include path.
GuardOf(iname) == IF prog = "old" THEN defNameOld(iname) ELSE defName(iname)

IncludeLines(inc) == [i \in 1..Len(inc) |-> "#include \"" \o includeName(inc[i]) \o "\""]

\* The last file this run created, when the last call was a createNamedInc that
\* returned nil.
IncWritten == last.kind = "inc" /\ last.err = Nil /\ Len(log) > 0

\* C7, as stated: the lines of an include file are the pragma (in once mode),
\* #ifndef G, #define G, a blank line, the include lines, a blank line when
\* there are includes, #endif //G.
C7_Original ==
  IncWritten =>
    LET e == log[Len(log)]
        G == GuardOf(e.iname)
    IN disk[last.fn] =
         Unlines((IF once THEN <<"#pragma once">> ELSE <<>>)
                 \o <<"#ifndef " \o G, "#define " \o G, "">>
                 \o IncludeLines(e.inc)
                 \o (IF Len(e.inc) > 0 THEN <<"">> ELSE <<>>)
                 \o <<"#endif //" \o G>>)

\* C7, amended: in once mode the pragma is followed by a blank line; the rest
\* is as stated.
C7_IncludeFileLines ==
  IncWritten =>
    LET e == log[Len(log)]
        G == GuardOf(e.iname)
    IN disk[last.fn] =
         Unlines((IF once THEN <<"#pragma once", "">> ELSE <<>>)
                 \o <<"#ifndef " \o G, "#define " \o G, "">>
                 \o IncludeLines(e.inc)
                 \o (IF Len(e.inc) > 0 THEN <<"">> ELSE <<>>)
                 \o <<"#endif //" \o G>>)

C7_Witness == IncWritten /\ once /\ name = nBar /\ Len(log[Len(log)].inc) = 1


\* ---- C8

\* Some creation or write of this run has failed, or the flags were refused.
Failed == stderr # <<>> \/ last.err # Nil

\* A failure ends the process with status 1, and status 0 means that every
\* planned file was created, in the order of the plan, and is there.
C8_ExitStatus ==
  /\ Failed => (Done /\ exitCode = 1 /\ stderr # <<>>)
  /\ (Done /\ exitCode = 0) =>
       /\ LogNames = PlanNames
       /\ \A i \in 1..Len(log) : log[i].fn \in DOMAIN disk

\* C8: once a creation or a write has failed, the run creates and writes no
\* further file and the process exits with status 1; status 0 is reached only
\* when every planned file was created.
C8_StopsAtFirstFailure ==
  /\ []C8_ExitStatus
  /\ [][Failed => disk' = disk]_vars

\* C8's case: the third call of a run failed at a write; two files are there.
C8_Witness ==
  /\ Done /\ exitCode = 1 /\ last.err = EIO /\ last.created /\ Len(log) = 2
  /\ Cardinality(DOMAIN disk) = 2

\* ---- C9

\* The last header of the public chain, which the private consts file includes.
LastPublic == IF prog = "old" THEN pubIncludes ELSE pubInlines
\* The last private include file, which the src template of the module includes.
LastPrivate == IF prog = "old" THEN privIncludes ELSE privInlines

\* The exceptions C9 names, for the i-th file created.
PrivConstsBridge(i) == log[i].iname = privConsts /\ ~isPfxSet /\ log[i].inc = <<LastPublic>>
PfxExportOwnInlines(i) ==
  isPfxSet /\ log[i].iname = args.add \o extH /\ log[i].inc = <<args.add \o sInlines>>

\* The src template of the module includes the last private include file only.
ModuleSrcOk(i) ==
  (~isPfxSet /\ log[i].kind = "src") =>
    /\ log[i].inc = <<LastPrivate>>
    /\ log[i].fn \in DOMAIN disk => disk[log[i].fn] = SrcOf(LastPrivate)

\* C9, as stated: the first file has no include; every other file has exactly
\* one, the file created immediately before it, but for the private consts
\* file and the export header of a custom prefix.
C9_Original ==
  \A i \in 1..Len(log) :
    /\ i = 1 => log[i].inc = <<>>
    /\ i > 1 =>
         /\ Len(log[i].inc) = 1
         /\ \/ log[i].inc[1] = log[i - 1].iname
            \/ PrivConstsBridge(i)
            \/ PfxExportOwnInlines(i)
    /\ ModuleSrcOk(i)

\* The further exceptions, both of the old program: its export header includes
\* pub_includes.h and its src template priv_includes.h, and neither was created
\* immediately before.
OldExport(i) == prog = "old" /\ log[i].iname = name \o extH /\ log[i].inc = <<pubIncludes>>
OldSrc(i)    == prog = "old" /\ log[i].kind = "src" /\ log[i].inc = <<privIncludes>>

\* C9, amended: as stated, with two more exceptions: in the old program the
\* export header <name>.h includes the last header of the public chain and
\* the src template <name>.c the last header of the private chain, though the
\* private chain, and the export header, were created in between.  Every
\* include names a file that the run created earlier.
C9_SingleChain ==
  \A i \in 1..Len(log) :
    /\ i = 1 => log[i].inc = <<>>
    /\ i > 1 =>
         /\ Len(log[i].inc) = 1
         /\ \/ log[i].inc[1] = log[i - 1].iname
            \/ PrivConstsBridge(i)
            \/ PfxExportOwnInlines(i)
            \/ OldExport(i)
            \/ OldSrc(i)
         /\ \E j \in 1..(i - 1) : log[j].iname = log[i].inc[1]
    /\ ModuleSrcOk(i)

C9_Witness == prog = "old" /\ Len(log) = 10 /\ name = nFoo /\ Done

\* ---- C10

ValidFlags == ~(args.nameSet /\ args.dirSet) /\ ~(args.addSet /\ args.add = "")

\* The lower-cased names of the planned files are pairwise distinct.
PlanDistinct ==
  \A i, j \in 1..Len(PlanNames) : i # j => ToLower(PlanNames[i]) # ToLower(PlanNames[j])

\* The paths of the files this run created are pairwise distinct.
LogDistinct == \A i, j \in 1..Len(log) : i # j => log[i].fn # log[j].fn

\* A run with valid flags, past checkFlags, started in an empty directory,
\* that met no I/O fault.
CleanRun == ValidFlags /\ pc # "checkFlags" /\ FromEmpty /\ NoIOFault

AllPlannedPresent ==
  /\ exitCode = 0
  /\ Files = LowerAll(PlanNames)
  /\ \A i \in 1..Len(PlanNames) : Abs(ToLower(PlanNames[i])) \in DOMAIN disk

\* C10, as stated: for every module name and every custom prefix the planned
\* names are distinct, no clean run fails with "file exists", and a clean run
\* ends with every planned file present.
C10_Original ==
  CleanRun =>
    /\ PlanDistinct
    /\ LogDistinct
    /\ \A i \in 1..Len(stderr) : stderr[i] # EEXIST
    /\ Done => AllPlannedPresent

\* The module's export header has the name of a tier file of the same plan.
Clash ==
  /\ ~(prog = "new" /\ args.addSet)
  /\ name # ""
  /\ ToLower(name \o extH) \in
       (IF prog = "old"
        THEN {pubConsts, pubTypes, pubInlines, pubIncludes,
              privConsts, privTypes, privInlines, privIncludes}
        ELSE {pubConsts, pubTypes, pubInlines}
             \cup (IF args.pub THEN {} ELSE {privConsts, privTypes, privInlines}))

\* C10, amended: the planned names are distinct for every custom prefix, and
\* for every module name but one whose lower-cased <name>.h is the name of a
\* tier file of the same plan (pub_consts, priv_types, ...); but for those
\* names, no clean run fails with "file exists", the files it creates are
\* distinct, and it ends with every planned file present.
C10_DistinctUnlessClash ==
  CleanRun =>
    /\ PlanDistinct <=> ~Clash
    /\ ~Clash =>
         /\ LogDistinct
         /\ \A i \in 1..Len(stderr) : stderr[i] # EEXIST
         /\ Done => AllPlannedPresent

C10_Witness ==
  CleanRun /\ ~Clash /\ Done /\ prog = "new" /\ name = nBar /\ ~args.pub /\ Len(log) = 8

====
